---- MODULE Spec2Model ----
(***************************************************************************)
(* Barnard's exact test for 2x2 contingency tables, as implemented by      *)
(* barnard_exact and _binomial_maximisation_of_p_value_with_nuisance_param *)
(* in scipy/stats/_hypotests.py.                                           *)
(*                                                                         *)
(* One call of barnard_exact is a run of the state machine below: the      *)
(* argument checks in source order, the Wald statistic field, the          *)
(* rejection mask, the rounds of the grid search and the return.           *)
(*                                                                         *)
(* Arithmetic.  Floating point values are modelled by the exact real       *)
(* numbers they approximate, extended with the IEEE special values the     *)
(* code relies on (NaN, +inf, -inf):                                       *)
(*   - a proportion or a variance is a reduced fraction [n, d];            *)
(*   - a statistic is sgn * sqrt(num / den), den = 0 meaning infinite,     *)
(*     with a nan flag;                                                    *)
(*   - a nuisance value is a fraction num / den with den = 99^round;       *)
(*   - a probability is a fraction of two arbitrary-precision naturals     *)
(*     (little-endian limbs in base Base), with a nan flag.                *)
(* Rounding error itself is not modelled.                                  *)
(***************************************************************************)
EXTENDS Integers, Sequences, FiniteSets, TLC

\* ------------------------------------------------------------------ bounds
\* A call's table holds at most MaxTotal observations (absolute values summed).
MaxTotal == 4
\* The longest search a call asks for: n_iter is -1, 0, 1 or MaxIter.
MaxIter == 2
\* The tables of a call that is repeated hold at most MaxRepeatTotal observations.
MaxRepeatTotal == 3

\* ------------------------------------------------- program constant (l.928)
nuisance_num == 100

\* --------------------------------------------------------------- fractions
Abs(x) == IF x < 0 THEN -x ELSE x
Sign(x) == IF x < 0 THEN -1 ELSE IF x = 0 THEN 0 ELSE 1
Max(x, y) == IF x >= y THEN x ELSE y

RECURSIVE GCD(_, _)
GCD(a, b) == IF b = 0 THEN a ELSE GCD(b, a % b)

\* The fraction n / d (d > 0) in lowest terms.
Frac(n, d) ==
    LET g == GCD(Abs(n), d)
    IN  [n |-> n \div g, d |-> d \div g]

FracAdd(p, q) == Frac(p.n * q.d + q.n * p.d, p.d * q.d)
FracSub(p, q) == Frac(p.n * q.d - q.n * p.d, p.d * q.d)
FracMul(p, q) == Frac(p.n * q.n, p.d * q.d)
FracOne == Frac(1, 1)

\* ------------------------------------------------- floating point specials
NaNStat == [nan |-> TRUE, sgn |-> 0, num |-> 0, den |-> 1]
ZeroStat == [nan |-> FALSE, sgn |-> 0, num |-> 0, den |-> 1]

\* diff / sqrt(var) for fractions diff and var >= 0, as IEEE division gives it
\* under errstate(divide="ignore", invalid="ignore"): 0/0 is NaN, x/0 is +-inf.
FloatDivideBySqrt(diff, var) ==
    IF var.n = 0
    THEN IF diff.n = 0
         THEN NaNStat
         ELSE [nan |-> FALSE, sgn |-> Sign(diff.n), num |-> 1, den |-> 0]
    ELSE IF diff.n = 0
         THEN ZeroStat
         ELSE LET sq == Frac(diff.n * diff.n * var.d, diff.d * diff.d * var.n)
              IN  [nan |-> FALSE, sgn |-> Sign(diff.n), num |-> sq.n, den |-> sq.d]

\* abs() of a statistic.
FloatAbs(t) == [t EXCEPT !.sgn = IF t.sgn = 0 THEN 0 ELSE 1]

\* A variant for which an infinity compares with nothing, as NaN does.
FloatLEFinite(s, t) ==
    /\ ~s.nan /\ s.den # 0
    /\ ~t.nan /\ t.den # 0
    /\ \/ s.sgn < t.sgn
       \/ /\ s.sgn = t.sgn
          /\ \/ s.sgn = 0
             \/ s.sgn = 1 /\ s.num * t.den <= t.num * s.den
             \/ s.sgn = -1 /\ s.num * t.den >= t.num * s.den

\* s <= t on floats: false as soon as one side is NaN.
FloatLE(s, t) ==
    /\ ~s.nan
    /\ ~t.nan
    /\ \/ s.sgn < t.sgn
       \/ /\ s.sgn = t.sgn
          /\ \/ s.sgn = 0
             \/ s.sgn = 1 /\ s.num * t.den <= t.num * s.den
             \/ s.sgn = -1 /\ s.num * t.den >= t.num * s.den

FloatGE(s, t) == FloatLE(t, s)

\* -------------------------------------------------------------- the inputs
Alternatives == {"two-sided", "less", "greater", "both"}

Entries == -1 .. MaxTotal

\* 2x2 tables, negative entries included, and three tables of another shape.
Tables2x2 ==
    {<<<<a, b>>, <<c, d>>>> : a \in Entries, b \in Entries, c \in Entries, d \in Entries}

OtherShapes ==
    { <<<<1, 0, 1>>, <<0, 1, 1>>>>,
      <<<<1, 1>>, <<0, 1>>, <<1, 0>>>>,
      <<<<1, 1>>>> }

TablesUpTo(m) ==
    {t \in Tables2x2 : Abs(t[1][1]) + Abs(t[1][2]) + Abs(t[2][1]) + Abs(t[2][2]) <= m}
        \cup OtherShapes

Tables == TablesUpTo(MaxTotal)

Iterations == {-1, 0, 1, MaxIter}

\* --------------------------------------------- arbitrary-precision naturals
\* A natural number is the sequence of its base-Base digits, least significant
\* first, without leading zeros; zero is the empty sequence.
Base == 100 * 100

BigZero == <<>>
BigOne == <<1>>

Limb(a, i) == IF i <= Len(a) THEN a[i] ELSE 0

RECURSIVE AddFrom(_, _, _, _)
\* The digits of a + b from position i on, c being the carry into position i.
AddFrom(a, b, i, c) ==
    IF c = 0 /\ i > Len(b) THEN SubSeq(a, i, Len(a))
    ELSE IF c = 0 /\ i > Len(a) THEN SubSeq(b, i, Len(b))
    ELSE IF i > Len(a) /\ i > Len(b) THEN <<c>>
    ELSE LET t == Limb(a, i) + Limb(b, i) + c
         IN  <<t % Base>> \o AddFrom(a, b, i + 1, t \div Base)

BigAdd(a, b) == AddFrom(a, b, 1, 0)

RECURSIVE ScaleFrom(_, _, _, _)
\* The digits of a * k from position i on, c being the carry into position i.
ScaleFrom(a, k, i, c) ==
    IF i > Len(a)
    THEN IF c = 0 THEN <<>> ELSE <<c>>
    ELSE LET t == a[i] * k + c
         IN  <<t % Base>> \o ScaleFrom(a, k, i + 1, t \div Base)

\* a * k for 0 <= k < Base.
BigScale(a, k) == IF k = 0 THEN BigZero ELSE ScaleFrom(a, k, 1, 0)

BigShift(a) == IF a = BigZero THEN a ELSE <<0>> \o a

\* a * k for 0 <= k < Base * Base.
BigTimes(a, k) ==
    IF k < Base
    THEN BigScale(a, k)
    ELSE BigAdd(BigScale(a, k % Base), BigShift(BigScale(a, k \div Base)))

RECURSIVE BigMulFrom(_, _, _)
BigMulFrom(a, b, i) ==
    IF i > Len(b)
    THEN BigZero
    ELSE BigAdd(BigScale(a, b[i]), BigShift(BigMulFrom(a, b, i + 1)))

BigMul(a, b) ==
    IF a = BigOne THEN b
    ELSE IF b = BigOne THEN a
    ELSE IF Len(a) >= Len(b) THEN BigMulFrom(a, b, 1)
    ELSE BigMulFrom(b, a, 1)

RECURSIVE BigLEFrom(_, _, _)
\* a <= b for numbers of equal length, comparing from digit i downwards.
BigLEFrom(a, b, i) ==
    IF i = 0 THEN TRUE
    ELSE IF a[i] # b[i] THEN a[i] < b[i]
    ELSE BigLEFrom(a, b, i - 1)

BigLE(a, b) ==
    IF Len(a) # Len(b) THEN Len(a) < Len(b) ELSE BigLEFrom(a, b, Len(a))

RECURSIVE BigPowers(_, _)
\* <<k^0, k^1, ..., k^n>> for 0 <= k < Base * Base.
BigPowers(k, n) ==
    IF n = 0
    THEN <<BigOne>>
    ELSE LET below == BigPowers(k, n - 1)
         IN  Append(below, BigTimes(below[n], k))

\* ------------------------------------------------------------ probabilities
\* A probability is num / den, or NaN.
NaNProb == [nan |-> TRUE, num |-> BigZero, den |-> BigOne]
OneProb == [nan |-> FALSE, num |-> BigOne, den |-> BigOne]

\* p <= q and p > q on floats: false as soon as one side is NaN.
ProbLE(p, q) ==
    /\ ~p.nan
    /\ ~q.nan
    /\ IF p.den = q.den
       THEN BigLE(p.num, q.num)
       ELSE BigLE(BigMul(p.num, q.den), BigMul(q.num, p.den))

ProbGT(p, q) == ~p.nan /\ ~q.nan /\ ~ProbLE(p, q)

ProbEq(p, q) == ProbLE(p, q) /\ ProbLE(q, p)

\* ---------------------------------------------------- barnard_exact: pieces
\* table.shape for the tables above (rows of equal length).
Shape(t) == <<Len(t), Len(t[1])>>

\* A variant that looks at the column totals instead of the entries.
AnyNegativeColumnSum(t) == \E j \in 1 .. Len(t[1]) : t[1][j] + t[2][j] < 0

\* np.any(table < 0)
AnyNegative(t) == \E i \in 1 .. Len(t) : \E j \in 1 .. Len(t[i]) : t[i][j] < 0

\* table.sum(axis=0)[j - 1]
ColumnSum(t, j) == t[1][j] + t[2][j]

\* A variant that sums along the other axis.
HasZeroRow(t) == t[1][1] + t[1][2] = 0 \/ t[2][1] + t[2][2] = 0

\* 0 in table.sum(axis=0) (l.853)
HasZeroColumn(t) == ColumnSum(t, 1) = 0 \/ ColumnSum(t, 2) = 0

\* A variant that lets n_iter = 0 through.
NIterNegative(ni) == ni < 0

\* n_iter <= 0 (l.839)
NIterRejected(ni) == ni <= 0

\* The sample space: the index pairs of the (c1 + 1) x (c2 + 1) arrays.
Points(c1, c2) == (0 .. c1) \X (0 .. c2)

\* A variant that divides by the first column's total where the second's belongs.
variancesOneTotal(x1, x2, c1, c2, pl) ==
    LET p1 == Frac(x1, c1)
        p2 == Frac(x2, c2)
        p  == Frac(x1 + x2, c1 + c2)
    IN  IF pl
        THEN FracMul(FracMul(p, FracSub(FracOne, p)),
                     FracAdd(Frac(1, c1), Frac(1, c1)))
        ELSE FracAdd(FracMul(FracMul(p1, FracSub(FracOne, p1)), Frac(1, c1)),
                     FracMul(FracMul(p2, FracSub(FracOne, p2)), Frac(1, c1)))

\* A variant whose pooled formula takes the first column's proportion for p.
variancesFirstProportion(x1, x2, c1, c2, pl) ==
    LET p1 == Frac(x1, c1)
        p2 == Frac(x2, c2)
    IN  IF pl
        THEN FracMul(FracMul(p1, FracSub(FracOne, p1)),
                     FracAdd(Frac(1, c1), Frac(1, c2)))
        ELSE FracAdd(FracMul(FracMul(p1, FracSub(FracOne, p1)), Frac(1, c1)),
                     FracMul(FracMul(p2, FracSub(FracOne, p2)), Frac(1, c2)))

\* variances[x1, x2] (l.867-871)
variances(x1, x2, c1, c2, pl) ==
    LET p1 == Frac(x1, c1)
        p2 == Frac(x2, c2)
        p  == Frac(x1 + x2, c1 + c2)
    IN  IF pl
        THEN FracMul(FracMul(p, FracSub(FracOne, p)),
                     FracAdd(Frac(1, c1), Frac(1, c2)))
        ELSE FracAdd(FracMul(FracMul(p1, FracSub(FracOne, p1)), Frac(1, c1)),
                     FracMul(FracMul(p2, FracSub(FracOne, p2)), Frac(1, c2)))

\* A variant without the overwrite.
RemoveNaNSkipped(p1, p2, w) == w

\* wald_statistic[p1 == p2] = 0 (l.877), at one point: w is the quotient of l.875.
RemoveNaN(p1, p2, w) == IF p1 = p2 THEN ZeroStat ELSE w

\* wald_statistic[x1, x2] after l.877
WaldAt(x1, x2, c1, c2, pl) ==
    LET p1 == Frac(x1, c1)
        p2 == Frac(x2, c2)
    IN  RemoveNaN(p1, p2,
                  FloatDivideBySqrt(FracSub(p1, p2), variances(x1, x2, c1, c2, pl)))

WaldField(c1, c2, pl) ==
    [pt \in Points(c1, c2) |-> WaldAt(pt[1], pt[2], c1, c2, pl)]

\* A variant with strict comparisons.
InRejectionRegionStrict(alt, w, obs) ==
    CASE alt = "two-sided" -> ~FloatLE(FloatAbs(w), FloatAbs(obs))
      [] alt = "less"      -> ~FloatGE(w, obs)
      [] alt = "greater"   -> ~FloatLE(w, obs)

\* A variant with the two one-sided alternatives exchanged.
InRejectionRegionExchanged(alt, w, obs) ==
    CASE alt = "two-sided" -> FloatGE(FloatAbs(w), FloatAbs(obs))
      [] alt = "less"      -> FloatGE(w, obs)
      [] alt = "greater"   -> FloatLE(w, obs)

\* index_arr at a point whose statistic is w, the observed statistic being obs
\* (l.881-886); the alternative is one of the three recognised ones.
InRejectionRegion(alt, w, obs) ==
    CASE alt = "two-sided" -> FloatGE(FloatAbs(w), FloatAbs(obs))
      [] alt = "less"      -> FloatLE(w, obs)
      [] alt = "greater"   -> FloatGE(w, obs)

\* ------------------------------- _compute_log_combinations, exponentiated
RECURSIVE Factorial(_)
Factorial(k) == IF k = 0 THEN 1 ELSE k * Factorial(k - 1)

\* exp(_compute_log_combinations(n)[k]) = n! / (k! (n-k)!)
compute_log_combinations(n) ==
    [k \in 0 .. n |-> Factorial(n) \div (Factorial(k) * Factorial(n - k))]

\* ----------------------------------------------------------- the grid search
\* A variant whose values leave out both ends of the bracket.
LinspaceInner(inf, sup, j) ==
    [num |-> inf.num * (nuisance_num + 1) + (j + 1) * (sup.num - inf.num),
     den |-> inf.den * (nuisance_num + 1)]

\* np.linspace(start=inf, stop=sup, num=nuisance_num)[j]: inf and sup are
\* fractions of one denominator, the candidates fractions of (nuisance_num - 1)
\* times that denominator.
Linspace(inf, sup, j) ==
    [num |-> inf.num * (nuisance_num - 1) + j * (sup.num - inf.num),
     den |-> inf.den * (nuisance_num - 1)]

\* exp(np.log(b / den) * k) as a multiple of den^-k, powers being <<b^0, .., b^n>>:
\* log(0) = -inf, -inf * 0 = NaN, -inf * k = -inf for k > 0, exp(-inf) = 0.
ExpLogTimes(b, powers, k) ==
    IF b = 0 /\ k = 0
    THEN [nan |-> TRUE, val |-> BigZero]
    ELSE [nan |-> FALSE, val |-> powers[k + 1]]

\* A variant that overwrites the power itself, not its logarithm, with 0.
ZeroPowerAsZero(k, term) == IF k = 0 THEN [nan |-> FALSE, val |-> BigZero] ELSE term

\* A variant without the overwrite.
ZeroPowerSkipped(k, term) == term

\* nuisance_power_x1_x2[(x1 + x2 == 0)[:, :, 0]] = 0 and
\* nuisance_power_n_minus_x1_x2[(x1 + x2 == n)[:, :, 0]] = 0 (l.951, l.956):
\* where the exponent k is 0 the logarithm's multiple is set to 0, so its exp is 1.
ZeroPower(k, term) == IF k = 0 THEN [nan |-> FALSE, val |-> BigOne] ELSE term

\* The sequence f, its elements evaluated once, here and now.
Eager(f) == <<>> \o f

RECURSIVE SumOver(_, _, _)
\* The sum of the values of field at the positions seq[i], seq[i+1], ...; NaN if
\* one of them is.
SumOver(field, seq, i) ==
    IF i > Len(seq)
    THEN [nan |-> FALSE, val |-> BigZero]
    ELSE LET rest == SumOver(field, seq, i + 1)
             here == field[seq[i]]
         IN  [nan |-> here.nan \/ rest.nan, val |-> BigAdd(here.val, rest.val)]

\* The point at position i of the flattened (c1 + 1) x (c2 + 1) arrays.
PointAt(c2, i) == <<(i - 1) \div (c2 + 1), (i - 1) % (c2 + 1)>>

\* The positions of all points, and of those idx selects.
AllPositions(c1, c2) == Eager([i \in 1 .. (c1 + 1) * (c2 + 1) |-> i])
MaskPositions(c1, c2, idx) ==
    SelectSeq(AllPositions(c1, c2), LAMBDA i : idx[PointAt(c2, i)])

\* exp(x1_sum_x2_log_comb) (l.924-926) and x1 + x2, flattened.
x1_sum_x2_log_comb(c1, c2) ==
    LET c1l == compute_log_combinations(c1)
        c2l == compute_log_combinations(c2)
    IN  Eager([i \in 1 .. (c1 + 1) * (c2 + 1) |->
                  c1l[PointAt(c2, i)[1]] * c2l[PointAt(c2, i)[2]]])

x1_plus_x2(c1, c2) ==
    Eager([i \in 1 .. (c1 + 1) * (c2 + 1) |-> PointAt(c2, i)[1] + PointAt(c2, i)[2]])

\* tmp_values_arr[:, :, j] before l.964 (l.938-962), flattened, for the candidate
\* pi = pi.num / pi.den; every value is a multiple of pi.den^-n.
TmpValues(n, combs, sums, pi) ==
    LET up   == BigPowers(pi.num, n)
        down == BigPowers(pi.den - pi.num, n)
        w    == Eager([k \in 1 .. n + 1 |->
                    LET s == k - 1
                        a == ZeroPower(s, ExpLogTimes(pi.num, up, s))
                        b == ZeroPower(n - s, ExpLogTimes(pi.den - pi.num, down, n - s))
                    IN  [nan |-> a.nan \/ b.nan, val |-> BigMul(a.val, b.val)]])
    IN  Eager([i \in 1 .. Len(combs) |->
                  [nan |-> w[sums[i] + 1].nan,
                   val |-> BigScale(w[sums[i] + 1].val, combs[i])]])

\* tmp_values_arr /= tmp_values_arr.sum(axis=(0, 1)) and
\* p_values_arr[j] = tmp_values_arr[idx].sum(axis=0)[j] (l.964-968): x / total is
\* NaN when x or total is NaN, or when total is 0.
PValue(field, all, mask) ==
    LET total == SumOver(field, all, 1)
        part  == SumOver(field, mask, 1)
    IN  IF total.nan \/ part.nan \/ total.val = BigZero
        THEN NaNProb
        ELSE [nan |-> FALSE, num |-> part.val, den |-> total.val]

\* p_values_arr of one round (l.920-926, l.932-968).
PValues(c1, c2, idx, inf, sup) ==
    LET combs == x1_sum_x2_log_comb(c1, c2)
        sums  == x1_plus_x2(c1, c2)
        all   == AllPositions(c1, c2)
        mask  == MaskPositions(c1, c2, idx)
        arr   == Eager([k \in 1 .. nuisance_num |->
                     PValue(TmpValues(c1 + c2, combs, sums, Linspace(inf, sup, k - 1)),
                            all, mask)])
    IN  [j \in 0 .. nuisance_num - 1 |-> arr[j + 1]]

RECURSIVE ArgMaxFrom(_, _, _)
\* np.argmax over arr[j ..], best being the index of the maximum of arr[0 .. j-1]:
\* the first index of the maximum, a NaN counting as the maximum.
ArgMaxFrom(arr, j, best) ==
    IF j = nuisance_num \/ arr[best].nan
    THEN best
    ELSE ArgMaxFrom(arr, j + 1, IF arr[j].nan \/ ProbGT(arr[j], arr[best]) THEN j ELSE best)

RECURSIVE ArgMaxLastFrom(_, _, _)
\* A variant of the scan that lets a later equal value replace the best so far.
ArgMaxLastFrom(arr, j, best) ==
    IF j = nuisance_num \/ arr[best].nan
    THEN best
    ELSE ArgMaxLastFrom(arr, j + 1, IF arr[j].nan \/ ProbLE(arr[best], arr[j]) THEN j ELSE best)

ArgMaxLast(arr) == ArgMaxLastFrom(arr, 1, 0)

ArgMax(arr) == ArgMaxFrom(arr, 1, 0)

\* A variant that keeps the maximising candidate as the lower end.
NarrowedBracketOneSided(inf, sup, i) ==
    [inf |-> Linspace(inf, sup, i),
     sup |-> IF i < nuisance_num - 1
             THEN Linspace(inf, sup, i + 1)
             ELSE Linspace(inf, sup, nuisance_num - 1)]

\* A variant without the guard of l.973: index -1 is the last candidate.
NarrowedBracketUnguarded(inf, sup, i) ==
    [inf |-> IF i > 0 THEN Linspace(inf, sup, i - 1) ELSE Linspace(inf, sup, nuisance_num - 1),
     sup |-> IF i < nuisance_num - 1
             THEN Linspace(inf, sup, i + 1)
             ELSE Linspace(inf, sup, nuisance_num - 1)]

\* The new bracket (l.971-980).
NarrowedBracket(inf, sup, i) ==
    [inf |-> IF i > 0 THEN Linspace(inf, sup, i - 1) ELSE Linspace(inf, sup, 0),
     sup |-> IF i < nuisance_num - 1
             THEN Linspace(inf, sup, i + 1)
             ELSE Linspace(inf, sup, nuisance_num - 1)]

\* if p_value > 1: p_value = 1.0 (l.984-986)
Clamp(p) == IF ProbGT(p, OneProb) THEN OneProb ELSE p

\* ------------------------------------------------------------------- state
VARIABLES
    table, alternative, pooled, n_iter,   \* the arguments of the running call
    call,                                 \* which call this is: "first", "again", "swapped"
    pc,                                   \* where the call stands
    steps,                                \* the statements the call has run so far
    total_col_1, total_col_2,             \* l.858
    wald_statistic, wald_stat_obs,        \* l.875-879
    index_arr,                            \* l.881-886
    inf_bound, sup_bound,                 \* l.929, l.971-980
    iter,                                 \* rounds of the loop of l.931 completed
    p_values_arr, max_pvalue_index,       \* l.968-969
    result,                               \* what the call returned or raised
    prev                                  \* the first finished call: arguments and result

args == <<table, alternative, pooled, n_iter>>
locals == <<total_col_1, total_col_2, wald_statistic, wald_stat_obs, index_arr,
            inf_bound, sup_bound, iter, p_values_arr, max_pvalue_index>>
vars == <<args, call, pc, steps, locals, result, prev>>

NoResult == [kind |-> "none", why |-> "", statistic |-> NaNStat, pvalue |-> NaNProb]
ValueError(why) == [kind |-> "ValueError", why |-> why, statistic |-> NaNStat, pvalue |-> NaNProb]
BarnardExactResult(statistic, pvalue) ==
    [kind |-> "value", why |-> "", statistic |-> statistic, pvalue |-> pvalue]

Init ==
    /\ table = <<<<0, 0>>, <<0, 0>>>>
    /\ alternative = "two-sided"
    /\ pooled = TRUE
    /\ n_iter = 3
    /\ call = "none"
    /\ pc = "idle"
    /\ steps = <<>>
    /\ total_col_1 = 0
    /\ total_col_2 = 0
    /\ wald_statistic = <<>>
    /\ wald_stat_obs = NaNStat
    /\ index_arr = <<>>
    /\ inf_bound = [num |-> 0, den |-> 1]
    /\ sup_bound = [num |-> 1, den |-> 1]
    /\ iter = 0
    /\ p_values_arr = <<>>
    /\ max_pvalue_index = 0
    /\ result = NoResult
    /\ prev = [set |-> FALSE, args |-> <<>>, result |-> NoResult]

\* A variant that keeps the bracket the call before ended with.
InitialBracketKept == [inf |-> inf_bound, sup |-> sup_bound]

\* inf_bound, sup_bound = 0, 1 (l.929)
InitialBracket == [inf |-> [num |-> 0, den |-> 1], sup |-> [num |-> 1, den |-> 1]]

\* The call ends with res, returned or raised.
Finish(res) ==
    /\ result' = res
    /\ pc' = "done"
    /\ prev' = IF prev.set THEN prev ELSE [set |-> TRUE, args |-> args, result |-> res]

Ran(step) == steps' = Append(steps, step)

\* ----------------------------------------------------------------- actions
\* barnard_exact(table, alternative, pooled, n_iter) is called (l.679).
Enter(kind, t, alt, pl, ni) ==
    /\ call' = kind
    /\ table' = t
    /\ alternative' = alt
    /\ pooled' = pl
    /\ n_iter' = ni
    /\ pc' = "n_iter"
    /\ steps' = <<>>
    /\ result' = NoResult
    /\ UNCHANGED <<locals, prev>>

barnard_exact ==
    /\ pc = "idle"
    /\ \E t \in Tables, alt \in Alternatives, pl \in BOOLEAN, ni \in Iterations :
          Enter("first", t, alt, pl, ni)

\* if n_iter <= 0: raise ValueError (l.839-843)
CheckNIter ==
    /\ pc = "n_iter"
    /\ Ran("n_iter")
    /\ IF NIterRejected(n_iter)
       THEN Finish(ValueError("n_iter"))
       ELSE pc' = "shape" /\ UNCHANGED <<result, prev>>
    /\ UNCHANGED <<args, call, locals>>

\* table = np.asarray(table); if not table.shape == (2, 2): raise (l.845-848)
CheckShape ==
    /\ pc = "shape"
    /\ Ran("shape")
    /\ IF Shape(table) # <<2, 2>>
       THEN Finish(ValueError("shape"))
       ELSE pc' = "negative" /\ UNCHANGED <<result, prev>>
    /\ UNCHANGED <<args, call, locals>>

\* if np.any(table < 0): raise (l.850-851)
CheckNonNegative ==
    /\ pc = "negative"
    /\ Ran("negative")
    /\ IF AnyNegative(table)
       THEN Finish(ValueError("negative"))
       ELSE pc' = "zero_column" /\ UNCHANGED <<result, prev>>
    /\ UNCHANGED <<args, call, locals>>

\* if 0 in table.sum(axis=0): return (nan, 1.0); else the column totals (l.853-858)
CheckZeroColumn ==
    /\ pc = "zero_column"
    /\ Ran("zero_column")
    /\ IF HasZeroColumn(table)
       THEN /\ Finish(BarnardExactResult(NaNStat, OneProb))
            /\ UNCHANGED <<total_col_1, total_col_2>>
       ELSE /\ total_col_1' = ColumnSum(table, 1)
            /\ total_col_2' = ColumnSum(table, 2)
            /\ pc' = "statistic"
            /\ UNCHANGED <<result, prev>>
    /\ UNCHANGED <<args, call, wald_statistic, wald_stat_obs, index_arr, inf_bound, sup_bound,
                   iter, p_values_arr, max_pvalue_index>>

\* The Wald statistic of every point and of the observed one (l.860-879).
ComputeWaldStatistic ==
    /\ pc = "statistic"
    /\ Ran("statistic")
    /\ wald_statistic' = WaldField(total_col_1, total_col_2, pooled)
    /\ wald_stat_obs' = wald_statistic'[<<table[1][1], table[1][2]>>]
    /\ pc' = "alternative"
    /\ UNCHANGED <<args, call, total_col_1, total_col_2, index_arr, inf_bound, sup_bound,
                   iter, p_values_arr, max_pvalue_index, result, prev>>

\* The rejection mask, or ValueError for an unrecognised alternative (l.881-892).
ComputeIndexArr ==
    /\ pc = "alternative"
    /\ Ran("alternative")
    /\ IF alternative \in {"two-sided", "less", "greater"}
       THEN /\ index_arr' = [pt \in Points(total_col_1, total_col_2) |->
                                InRejectionRegion(alternative, wald_statistic[pt],
                                                  wald_stat_obs)]
            /\ pc' = "search"
            /\ UNCHANGED <<result, prev>>
       ELSE /\ Finish(ValueError("alternative"))
            /\ UNCHANGED index_arr
    /\ UNCHANGED <<args, call, total_col_1, total_col_2, wald_statistic, wald_stat_obs,
                   inf_bound, sup_bound, iter, p_values_arr, max_pvalue_index>>

\* _binomial_maximisation_of_p_value_with_nuisance_param is entered (l.894, l.920-929).
binomial_maximisation_of_p_value_with_nuisance_param ==
    /\ pc = "search"
    /\ Ran("search")
    /\ inf_bound' = InitialBracket.inf
    /\ sup_bound' = InitialBracket.sup
    /\ iter' = 0
    /\ pc' = "loop"
    /\ UNCHANGED <<args, call, total_col_1, total_col_2, wald_statistic, wald_stat_obs,
                   index_arr, p_values_arr, max_pvalue_index, result, prev>>

\* A variant whose loop runs once more, as range(n_iter + 1) would.
GridRoundOnceMore ==
    /\ pc = "loop"
    /\ iter <= n_iter
    /\ Ran("round")
    /\ p_values_arr' = PValues(total_col_1, total_col_2, index_arr, inf_bound, sup_bound)
    /\ max_pvalue_index' = ArgMax(p_values_arr')
    /\ inf_bound' = NarrowedBracket(inf_bound, sup_bound, max_pvalue_index').inf
    /\ sup_bound' = NarrowedBracket(inf_bound, sup_bound, max_pvalue_index').sup
    /\ iter' = iter + 1
    /\ UNCHANGED <<args, call, pc, total_col_1, total_col_2, wald_statistic, wald_stat_obs,
                   index_arr, result, prev>>

\* One round of the loop (l.931-980).
GridRound ==
    /\ pc = "loop"
    /\ iter < n_iter
    /\ Ran("round")
    /\ p_values_arr' = PValues(total_col_1, total_col_2, index_arr, inf_bound, sup_bound)
    /\ max_pvalue_index' = ArgMax(p_values_arr')
    /\ inf_bound' = NarrowedBracket(inf_bound, sup_bound, max_pvalue_index').inf
    /\ sup_bound' = NarrowedBracket(inf_bound, sup_bound, max_pvalue_index').sup
    /\ iter' = iter + 1
    /\ UNCHANGED <<args, call, pc, total_col_1, total_col_2, wald_statistic, wald_stat_obs,
                   index_arr, result, prev>>

\* The loop is over: the clamped p-value and the statistic (l.982-988, l.897).
Return ==
    /\ pc = "loop"
    /\ iter = n_iter
    /\ Ran("return")
    /\ Finish(BarnardExactResult(wald_stat_obs, Clamp(p_values_arr[max_pvalue_index])))
    /\ UNCHANGED <<args, call, locals>>

Step ==
    \/ CheckNIter
    \/ CheckShape
    \/ CheckNonNegative
    \/ CheckZeroColumn
    \/ ComputeWaldStatistic
    \/ ComputeIndexArr
    \/ binomial_maximisation_of_p_value_with_nuisance_param
    \/ GridRound
    \/ Return

Next == barnard_exact \/ Step

Spec == Init /\ [][Next]_vars

\* A call that has started runs on until it returns or raises: nothing in it
\* waits for anything, so the statement it stands at is run.
StepNames ==
    {"n_iter", "shape", "negative", "zero_column", "statistic", "alternative", "search",
     "round", "return"}

RunsAStatement ==
    /\ pc \notin {"idle", "done"}
    /\ steps' \in {Append(steps, name) : name \in StepNames}

SpecFair == Spec /\ WF_steps(RunsAStatement)

\* ----------------------------------------------------------- repeated calls
\* A first call, then further calls while the locals of the call before still hold
\* what it left in them: the first call's arguments again, or, right after a call
\* with the first call's arguments, the column-swapped table under the mirrored
\* alternative.
RepeatIterations == {0, MaxIter}

RepeatTables == TablesUpTo(MaxRepeatTotal)

SwapColumns(t) == <<<<t[1][2], t[1][1]>>, <<t[2][2], t[2][1]>>>>

Mirror(alt) ==
    CASE alt = "less" -> "greater"
      [] alt = "greater" -> "less"
      [] OTHER -> alt

FirstCall ==
    /\ pc = "idle"
    /\ \E t \in RepeatTables, alt \in Alternatives, pl \in BOOLEAN, ni \in RepeatIterations :
          Enter("first", t, alt, pl, ni)

CallAgain ==
    /\ pc = "done"
    /\ Enter("again", prev.args[1], prev.args[2], prev.args[3], prev.args[4])

CallSwapped ==
    /\ pc = "done"
    /\ args = prev.args
    /\ Shape(table) = <<2, 2>>
    /\ Enter("swapped", SwapColumns(table), Mirror(alternative), pooled, n_iter)

NextRepeat == FirstCall \/ Step \/ CallAgain \/ CallSwapped

SpecRepeat == Init /\ [][NextRepeat]_vars

\* --------------------------------------------------------------- properties
\* The vocabulary of the properties, written on the arguments of the running call.
HasRun(step) == \E i \in 1 .. Len(steps) : steps[i] = step

Recognised == {"two-sided", "less", "greater"}

IsTwoByTwo == Len(table) = 2 /\ Len(table[1]) = 2 /\ Len(table[2]) = 2

SomeEntryNegative == \E i \in 1 .. Len(table) : \E j \in 1 .. Len(table[i]) : table[i][j] < 0

IsContingencyTable == IsTwoByTwo /\ ~SomeEntryNegative

SomeColumnEmpty ==
    table[1][1] + table[2][1] = 0 \/ table[1][2] + table[2][2] = 0

\* A call the function answers with the outcome of the search.
IsTested ==
    /\ n_iter > 0
    /\ IsContingencyTable
    /\ ~SomeColumnEmpty
    /\ alternative \in Recognised

StrictlyBetweenZeroAndOne(p) ==
    /\ ~p.nan
    /\ p.num # BigZero
    /\ ~BigLE(p.den, p.num)

\* C1: whenever a call returns a result for a 2x2 table of non-negative entries,
\* a recognised alternative and a positive n_iter, the p-value is a number of [0, 1].
C1_PValueInUnitInterval ==
    (pc = "done" /\ n_iter > 0 /\ IsContingencyTable /\ alternative \in Recognised)
        => /\ result.kind = "value"
           /\ ~result.pvalue.nan
           /\ result.pvalue.den # BigZero
           /\ BigLE(result.pvalue.num, result.pvalue.den)

\* A search of MaxIter rounds has returned a p-value strictly inside (0, 1).
C1_Witness ==
    /\ pc = "done"
    /\ IsTested
    /\ n_iter = MaxIter
    /\ HasRun("round")
    /\ result.kind = "value"
    /\ StrictlyBetweenZeroAndOne(result.pvalue)

\* C2: a 2x2 table of non-negative entries with a column of sum zero is answered
\* with exactly (NaN, 1.0), whatever alternative and pooled are, and the call runs
\* neither the statistic nor the mask nor any round of the search.
C2_ZeroColumnShortCircuit ==
    (call # "none" /\ n_iter > 0 /\ IsContingencyTable /\ SomeColumnEmpty)
        => /\ pc \in {"n_iter", "shape", "negative", "zero_column", "done"}
           /\ ~HasRun("statistic")
           /\ ~HasRun("alternative")
           /\ ~HasRun("search")
           /\ ~HasRun("round")
           /\ pc = "done" => result = BarnardExactResult(NaNStat, OneProb)

\* The short circuit has answered a call with an unrecognised alternative and
\* the unpooled variance.
C2_Witness ==
    /\ pc = "done"
    /\ n_iter > 0
    /\ IsContingencyTable
    /\ SomeColumnEmpty
    /\ table[1][2] + table[2][2] > 0
    /\ alternative = "both"
    /\ ~pooled
    /\ result = BarnardExactResult(NaNStat, OneProb)

\* C3: a call with an alternative other than "two-sided", "less" and "greater"
\* always ends in ValueError, tables with a zero-sum column included, and the
\* alternative is rejected before any work on the table.
C3_UnrecognisedAlternativeFails ==
    (pc = "done" /\ alternative \notin Recognised)
        => /\ result.kind = "ValueError"
           /\ ~HasRun("zero_column")
           /\ ~HasRun("statistic")

C5_MalformedTableFails ==
    (call # "none" /\ n_iter > 0 /\ ~IsContingencyTable)
        => /\ pc \in {"n_iter", "shape", "negative", "done"}
           /\ ~HasRun("zero_column")
           /\ pc = "done" => /\ result.kind = "ValueError"
                             /\ result.why = (IF IsTwoByTwo THEN "negative" ELSE "shape")

\* A table with a negative entry and a column of sum zero has been rejected.
C5_Witness ==
    /\ pc = "done"
    /\ n_iter > 0
    /\ IsTwoByTwo
    /\ SomeEntryNegative
    /\ SomeColumnEmpty
    /\ result = ValueError("negative")

\* The observed proportions a / (a + c) and b / (b + d) are equal.
EqualProportions ==
    table[1][1] * (table[1][2] + table[2][2]) = table[1][2] * (table[1][1] + table[2][1])

\* C6: when the two observed proportions are equal the statistic returned is 0,
\* and under "two-sided" the mask holds every point and the p-value is 1.
C6_EqualProportions ==
    (pc = "done" /\ IsTested /\ EqualProportions)
        => /\ result.kind = "value"
           /\ result.statistic = ZeroStat
           /\ alternative = "two-sided"
                => /\ \A pt \in Points(table[1][1] + table[2][1], table[1][2] + table[2][2]) :
                          index_arr[pt]
                   /\ ProbEq(result.pvalue, OneProb)

\* A two-sided search has answered a table of equal proportions.
C6_Witness ==
    /\ pc = "done"
    /\ IsTested
    /\ EqualProportions
    /\ alternative = "two-sided"
    /\ HasRun("round")
    /\ result.statistic = ZeroStat
    /\ ProbEq(result.pvalue, OneProb)

\* The statistic with the opposite sign.
Negated(t) == [t EXCEPT !.sgn = 0 - t.sgn]

\* C7: the call on the column-swapped table under the mirrored alternative
\* returns the negated statistic and the same p-value as the call on the table.
C7_ColumnSwapSymmetry ==
    (pc = "done" /\ call = "swapped" /\ IsTested)
        => /\ prev.result.kind = "value"
           /\ result.kind = "value"
           /\ ~result.statistic.nan
           /\ result.statistic = Negated(prev.result.statistic)
           /\ ProbEq(result.pvalue, prev.result.pvalue)

\* The swapped call has answered a table of unequal column totals with a
\* statistic other than 0 and a p-value strictly inside (0, 1).
C7_Witness ==
    /\ pc = "done"
    /\ call = "swapped"
    /\ IsTested
    /\ table[1][1] + table[2][1] # table[1][2] + table[2][2]
    /\ alternative = "less"
    /\ HasRun("round")
    /\ result.statistic.sgn # 0
    /\ result.statistic = Negated(prev.result.statistic)
    /\ StrictlyBetweenZeroAndOne(result.pvalue)

AtMost(s, t) ==
    IF s.sgn # t.sgn
    THEN s.sgn < t.sgn
    ELSE CASE s.sgn = 0  -> TRUE
           [] s.sgn = 1  -> s.num * t.den <= t.num * s.den
           [] s.sgn = -1 -> t.num * s.den <= s.num * t.den

Magnitude(t) == [t EXCEPT !.sgn = IF t.sgn = 0 THEN 0 ELSE 1]

AsExtreme(alt, w, obs) ==
    CASE alt = "two-sided" -> AtMost(Magnitude(obs), Magnitude(w))
      [] alt = "less"      -> AtMost(w, obs)
      [] alt = "greater"   -> AtMost(obs, w)

\* C9: once the mask is computed, with T0 the statistic at the observed point
\* (a, b), the mask holds at a point exactly when |T| >= |T0| ("two-sided"),
\* T <= T0 ("less") or T >= T0 ("greater").
C9_MaskDefinition ==
    (HasRun("alternative") /\ alternative \in Recognised)
        => /\ wald_stat_obs = wald_statistic[<<table[1][1], table[1][2]>>]
           /\ DOMAIN index_arr = Points(table[1][1] + table[2][1], table[1][2] + table[2][2])
           /\ \A pt \in DOMAIN index_arr :
                 index_arr[pt] <=> AsExtreme(alternative, wald_statistic[pt], wald_stat_obs)

\* A one-sided mask that holds at some points and not at others, one of them
\* with an infinite statistic.
C9_Witness ==
    /\ HasRun("alternative")
    /\ alternative = "less"
    /\ \E pt \in DOMAIN index_arr : index_arr[pt]
    /\ \E pt \in DOMAIN index_arr : ~index_arr[pt]
    /\ \E pt \in DOMAIN index_arr : wald_statistic[pt].den = 0

\* C10: once the statistic field is computed it is exactly 0 at every point with
\* x1 * c2 = x2 * c1, and NaN at no point; the observed statistic is not NaN.
C10_FieldWithoutNaN ==
    HasRun("statistic")
        => /\ DOMAIN wald_statistic = Points(table[1][1] + table[2][1], table[1][2] + table[2][2])
           /\ \A pt \in DOMAIN wald_statistic :
                 /\ ~wald_statistic[pt].nan
                 /\ pt[1] * (table[1][2] + table[2][2]) = pt[2] * (table[1][1] + table[2][1])
                       => wald_statistic[pt] = ZeroStat
           /\ ~wald_stat_obs.nan

\* A field whose corners (0, 0) and (c1, c2), where the variance is 0, are 0.
C10_Witness ==
    /\ HasRun("statistic")
    /\ wald_statistic[<<0, 0>>] = ZeroStat
    /\ wald_statistic[<<total_col_1, total_col_2>>] = ZeroStat
    /\ \E pt \in DOMAIN wald_statistic : wald_statistic[pt].sgn # 0

\* The variance of l.867-871 at a point of the running call's sample space.
VarianceAt(pt) == variances(pt[1], pt[2], total_col_1, total_col_2, pooled)

SameProportions(pt) == pt[1] * total_col_2 = pt[2] * total_col_1

Infinite(t) == ~t.nan /\ t.sgn # 0 /\ t.den = 0

\* C11, as stated: at every point of the sample space, under the pooled and the
\* unpooled formula alike, a variance of 0 implies p1 = p2.
C11_ZeroVarianceImpliesEqual ==
    HasRun("statistic")
        => \A pt \in Points(total_col_1, total_col_2) :
              VarianceAt(pt).n = 0 => SameProportions(pt)

\* C11, amended: under the pooled formula a variance of 0 implies p1 = p2; under
\* the unpooled formula the variance is 0 exactly at the four corners of the
\* sample space, and at the two corners (0, c2) and (c1, 0), where p1 # p2, the
\* statistic is infinite with the sign of p1 - p2, never NaN.
C11_ZeroVarianceAmended ==
    HasRun("statistic")
        => \A pt \in Points(total_col_1, total_col_2) :
              /\ VarianceAt(pt).n >= 0 /\ VarianceAt(pt).d > 0
              /\ pooled => (VarianceAt(pt).n = 0 => SameProportions(pt))
              /\ ~pooled => /\ VarianceAt(pt).n = 0
                                <=> (pt[1] \in {0, total_col_1} /\ pt[2] \in {0, total_col_2})
                            /\ (VarianceAt(pt).n = 0 /\ ~SameProportions(pt))
                                => /\ Infinite(wald_statistic[pt])
                                   /\ wald_statistic[pt].sgn
                                        = Sign(pt[1] * total_col_2 - pt[2] * total_col_1)

\* An unpooled field holds -inf at (0, c2) and +inf at (c1, 0).
C11_Witness ==
    /\ HasRun("statistic")
    /\ ~pooled
    /\ total_col_1 # total_col_2
    /\ Infinite(wald_statistic[<<0, total_col_2>>])
    /\ wald_statistic[<<0, total_col_2>>].sgn = -1
    /\ Infinite(wald_statistic[<<total_col_1, 0>>])
    /\ wald_statistic[<<total_col_1, 0>>].sgn = 1

\* a <= b and a < b for two nuisance values, whose denominators are powers of
\* nuisance_num - 1: both are brought to the larger denominator.
NuisanceLE(a, b) ==
    a.num * (Max(a.den, b.den) \div a.den) <= b.num * (Max(a.den, b.den) \div b.den)

NuisanceLT(a, b) == ~NuisanceLE(b, a)

NuisanceZero == [num |-> 0, den |-> 1]
NuisanceOne == [num |-> 1, den |-> 1]

NuisanceEq(a, b) == NuisanceLE(a, b) /\ NuisanceLE(b, a)

\* The j-th of nuisance_num evenly spaced values from inf_bound to sup_bound:
\* inf_bound + j * (sup_bound - inf_bound) / (nuisance_num - 1).
Candidate(j) ==
    [num |-> (nuisance_num - 1 - j) * inf_bound.num + j * sup_bound.num,
     den |-> (nuisance_num - 1) * inf_bound.den]

\* The bracket a round that chooses index i is to leave.
NeighboursOf(i) ==
    CASE i = 0                -> [inf |-> Candidate(0), sup |-> Candidate(1)]
      [] i = nuisance_num - 1 -> [inf |-> Candidate(nuisance_num - 2),
                                  sup |-> Candidate(nuisance_num - 1)]
      [] OTHER                -> [inf |-> Candidate(i - 1), sup |-> Candidate(i + 1)]

\* C13: a round whose candidates are cand[0] = inf_bound, ..., cand[k-1] =
\* sup_bound and whose maximising index is i leaves the bracket
\* [cand[i-1], cand[i+1]] when 0 < i < k-1, [cand[0], cand[1]] when i = 0 and
\* [cand[k-2], cand[k-1]] when i = k-1; cand[i] lies inside the new bracket.
\* The narrowing of l.971-980 is compared at every index a round could choose,
\* and the bracket a round leaves is the narrowing at the index it chose.
C13_NarrowingStep ==
    /\ [](pc = "loop"
            => /\ inf_bound.den = sup_bound.den
               /\ NuisanceEq(Candidate(0), inf_bound)
               /\ NuisanceEq(Candidate(nuisance_num - 1), sup_bound)
               /\ \A i \in 0 .. nuisance_num - 1 :
                     /\ NuisanceEq(NarrowedBracket(inf_bound, sup_bound, i).inf,
                                   NeighboursOf(i).inf)
                     /\ NuisanceEq(NarrowedBracket(inf_bound, sup_bound, i).sup,
                                   NeighboursOf(i).sup)
                     /\ NuisanceLE(NeighboursOf(i).inf, Candidate(i))
                     /\ NuisanceLE(Candidate(i), NeighboursOf(i).sup))
    /\ [][(pc = "loop" /\ iter' = iter + 1)
            => /\ max_pvalue_index' \in 0 .. nuisance_num - 1
               /\ NuisanceEq(inf_bound', NeighboursOf(max_pvalue_index').inf)
               /\ NuisanceEq(sup_bound', NeighboursOf(max_pvalue_index').sup)]_vars

\* The first round has chosen an inner candidate i and left [(i-1)/99, (i+1)/99].
C13_Witness ==
    /\ pc = "loop"
    /\ iter = 1
    /\ 0 < max_pvalue_index
    /\ max_pvalue_index < nuisance_num - 1
    /\ inf_bound = [num |-> max_pvalue_index - 1, den |-> nuisance_num - 1]
    /\ sup_bound = [num |-> max_pvalue_index + 1, den |-> nuisance_num - 1]

\* p < q for two probabilities that are numbers, by cross-multiplication.
Below(p, q) ==
    /\ ~p.nan
    /\ ~q.nan
    /\ ~BigLE(BigMul(q.num, p.den), BigMul(p.num, q.den))

SameValue(p, q) == ~p.nan /\ ~q.nan /\ ~Below(p, q) /\ ~Below(q, p)

\* C14: the index a round selects is the smallest index whose candidate p-value
\* is the maximum of the round's candidate p-values.
C14_ArgMaxIsFirstMaximum ==
    HasRun("round")
        => /\ max_pvalue_index \in 0 .. nuisance_num - 1
           /\ \A j \in 0 .. nuisance_num - 1 :
                 /\ ~Below(p_values_arr[max_pvalue_index], p_values_arr[j])
                 /\ j < max_pvalue_index
                       => Below(p_values_arr[j], p_values_arr[max_pvalue_index])

\* A round whose maximum, below 1, is taken by an inner candidate and again by
\* a later one: the earlier one is selected.
C14_Witness ==
    /\ HasRun("round")
    /\ max_pvalue_index > 0
    /\ Below(p_values_arr[max_pvalue_index], OneProb)
    /\ \E j \in max_pvalue_index + 1 .. nuisance_num - 1 :
          /\ ~Below(p_values_arr[j], p_values_arr[max_pvalue_index])
          /\ ~Below(p_values_arr[max_pvalue_index], p_values_arr[j])

\* The steps of a call that returns the outcome of a search of r rounds.
RECURSIVE Rounds(_)
Rounds(r) == IF r = 0 THEN <<>> ELSE <<"round">> \o Rounds(r - 1)

StepsOfSearch(r) ==
    <<"n_iter", "shape", "negative", "zero_column", "statistic", "alternative", "search">>
        \o Rounds(r)

\* The p-value of l.964-968 for the mask of the running call at one value of pi.
PValueAt(pi) ==
    PValue(TmpValues(total_col_1 + total_col_2,
                     x1_sum_x2_log_comb(total_col_1, total_col_2),
                     x1_plus_x2(total_col_1, total_col_2), pi),
           AllPositions(total_col_1, total_col_2),
           MaskPositions(total_col_1, total_col_2, index_arr))

\* C15: a search ends after exactly n_iter rounds, run one after the other, each
\* on the bracket the round before left, and what is returned is the minimum of
\* 1 and the largest candidate p-value of the last round.
C15_ExactlyNIterRounds ==
    /\ pc = "search" ~> pc = "done"
    /\ [](pc = "loop" => (iter <= n_iter /\ steps = StepsOfSearch(iter)))
    /\ [][(pc = "loop" /\ iter' = iter + 1)
            => /\ SameValue(p_values_arr'[0], PValueAt(inf_bound))
               /\ SameValue(p_values_arr'[nuisance_num - 1], PValueAt(sup_bound))]_vars
    /\ [][(pc = "loop" /\ pc' = "done")
            => /\ iter = n_iter
               /\ steps' = StepsOfSearch(n_iter) \o <<"return">>
               /\ result'.kind = "value"
               /\ \A j \in 0 .. nuisance_num - 1 :
                     ~Below(p_values_arr[max_pvalue_index], p_values_arr[j])
               /\ IF Below(OneProb, p_values_arr[max_pvalue_index])
                  THEN result'.pvalue = OneProb
                  ELSE result'.pvalue = p_values_arr[max_pvalue_index]]_vars

\* A search of MaxIter rounds has returned the last round's maximum.
C15_Witness ==
    /\ pc = "done"
    /\ n_iter = MaxIter
    /\ iter = MaxIter
    /\ steps = StepsOfSearch(MaxIter) \o <<"return">>
    /\ result.pvalue = p_values_arr[max_pvalue_index]
    /\ StrictlyBetweenZeroAndOne(result.pvalue)

\* tmp_values_arr before l.964 of the running call at one value of pi, flattened,
\* and its sum over the sample space.
FieldAt(pi) ==
    TmpValues(total_col_1 + total_col_2,
              x1_sum_x2_log_comb(total_col_1, total_col_2),
              x1_plus_x2(total_col_1, total_col_2), pi)

MassOf(field) == SumOver(field, AllPositions(total_col_1, total_col_2), 1)

\* All of the mass of field lies on position at.
AllMassOn(field, at) ==
    /\ field[at].val = MassOf(field).val
    /\ \A i \in 1 .. Len(field) : i # at => field[i].val = BigZero

\* C16: for every candidate of a round about to run, no point's probability is
\* NaN (no term is NaN and the total mass is not 0); the candidate pi = 0 puts
\* mass 1 on (0, 0) and 0 elsewhere, the candidate pi = 1 mass 1 on (c1, c2).
C16_BoundaryConvention ==
    (pc = "loop" /\ iter < n_iter)
        => \A j \in 0 .. nuisance_num - 1 :
              LET pi    == Linspace(inf_bound, sup_bound, j)
                  field == FieldAt(pi)
              IN  /\ Len(field) = (total_col_1 + 1) * (total_col_2 + 1)
                  /\ \A i \in 1 .. Len(field) : ~field[i].nan
                  /\ ~MassOf(field).nan
                  /\ MassOf(field).val # BigZero
                  /\ pi.num = 0 => AllMassOn(field, 1)
                  /\ pi.num = pi.den => AllMassOn(field, Len(field))

\* The first round, whose candidates 0 and 99 are pi = 0 and pi = 1, has given
\* both the p-value 1 for a mask that holds (0, 0) and (c1, c2) but not every point.
C16_Witness ==
    /\ pc = "loop"
    /\ iter = 1
    /\ index_arr[<<0, 0>>]
    /\ index_arr[<<total_col_1, total_col_2>>]
    /\ \E pt \in DOMAIN index_arr : ~index_arr[pt]
    /\ SameValue(p_values_arr[0], OneProb)
    /\ SameValue(p_values_arr[nuisance_num - 1], OneProb)
    /\ \E j \in 1 .. nuisance_num - 2 : Below(p_values_arr[j], OneProb)

\* C17: the largest candidate p-value of a round is never below that of the
\* round before, so what the last round returns is at least the maximum of
\* every earlier round.
C17_BestNeverDecreases ==
    [][(pc = "loop" /\ iter >= 1 /\ iter' = iter + 1)
         => ~Below(p_values_arr'[max_pvalue_index'], p_values_arr[max_pvalue_index])]_vars

\* C18: once the mask is computed, the observed point (a, b) is a point of the
\* sample space and the mask holds at it, so the mask is not empty.
C18_ObservedPointInMask ==
    (HasRun("alternative") /\ alternative \in Recognised)
        => /\ 0 <= table[1][1] /\ table[1][1] <= table[1][1] + table[2][1]
           /\ 0 <= table[1][2] /\ table[1][2] <= table[1][2] + table[2][2]
           /\ <<table[1][1], table[1][2]>> \in DOMAIN index_arr
           /\ index_arr[<<table[1][1], table[1][2]>>]
           /\ \E pt \in DOMAIN index_arr : index_arr[pt]

\* The observed statistic is infinite, and the mask holds at the observed point
\* and not everywhere.
C18_Witness ==
    /\ HasRun("alternative")
    /\ alternative \in Recognised
    /\ Infinite(wald_stat_obs)
    /\ index_arr[<<table[1][1], table[1][2]>>]
    /\ \E pt \in DOMAIN index_arr : ~index_arr[pt]

\* The alternative is one-sided and the observed statistic is on the other side
\* of 0, or is 0.
ObservedAgainstAlternative ==
    \/ alternative = "less" /\ wald_stat_obs.sgn >= 0
    \/ alternative = "greater" /\ wald_stat_obs.sgn <= 0

\* C19: for a non-degenerate valid table and n_iter > 0, under "less" with an
\* observed statistic >= 0 or "greater" with one <= 0: the mask holds (0, 0) and
\* (c1, c2), every round finds the p-value 1 at index 0 and chooses it, the
\* bracket keeps inf_bound = 0, and the p-value returned is exactly 1.
C19_PValueOneAgainstAlternative ==
    (IsTested /\ HasRun("statistic") /\ ~wald_stat_obs.nan /\ ObservedAgainstAlternative)
        => /\ HasRun("alternative")
                => /\ index_arr[<<0, 0>>]
                   /\ index_arr[<<total_col_1, total_col_2>>]
           /\ HasRun("round")
                => /\ max_pvalue_index = 0
                   /\ SameValue(p_values_arr[0], OneProb)
                   /\ inf_bound.num = 0
                   /\ NuisanceLT(inf_bound, sup_bound)
           /\ pc = "done"
                => /\ result.kind = "value"
                   /\ SameValue(result.pvalue, OneProb)

\* A search of MaxIter rounds under "less" has returned 1 for a positive
\* observed statistic, with a mask that does not hold everywhere.
C19_Witness ==
    /\ pc = "done"
    /\ IsTested
    /\ n_iter = MaxIter
    /\ alternative = "less"
    /\ wald_stat_obs.sgn = 1
    /\ \E pt \in DOMAIN index_arr : ~index_arr[pt]
    /\ max_pvalue_index = 0
    /\ SameValue(result.pvalue, OneProb)

====
